---- MODULE Spec2Model ----
(***************************************************************************)
(* Name algebra of miratope-rs: the language-independent polytope names.   *)
(*                                                                         *)
(* Two iterations of the name module are modelled:                         *)
(*   L_*  miratope-lang/src/name.rs   (ranks count from Nullitope = 0)     *)
(*   S_*  src/lang/name.rs            (ranks count from Nullitope = -1)    *)
(*                                                                         *)
(* A Name is a record [k, d, c, n, m, kids]:                               *)
(*   k     the variant                                                     *)
(*   d     the NameData payload: "Abs" for AbsData; for ConData<Regular>   *)
(*         "No" / "Yes"; for ConData<Quadrilateral> "Square" /             *)
(*         "Rectangle" / "Orthodiagonal"; for ConData<bool> "true" /       *)
(*         "false"; "-" when the variant has no such field                 *)
(*   c     the center (Regular::Yes, Dual, Antitegum), a point on a line   *)
(*   n, m  the integer fields (rank, n, facet_count)                       *)
(*   kids  the children (Box or Vec)                                       *)
(***************************************************************************)
EXTENDS Integers, Sequences, FiniteSets, TLC

VARIABLES
    lib,      \* which name module the run exercises: "L" or "S"
    regime,   \* the NameType marker: "Abs" or "Con"
    cur,      \* the name built so far
    prev,     \* the name the last constructor consumed
    op,       \* the last constructor call: its name, center and operand list
    lst,      \* the operand list being collected for a multi-operand call
    atomic,   \* whether the run started from Nullitope, Point or Dyad
    steps     \* the number of constructor calls made

vars == <<lib, regime, cur, prev, op, lst, atomic, steps>>

(* ---------------------------------------------------------------- bounds *)
MaxSteps == 3
MaxLen == 3
MaxRep == 2

(* The depth of nested constructor calls the call stack holds.             *)
MaxStack == 6

(* Float::EPS, in units of half the tolerance: two points are within EPS   *)
(* of each other iff their distance is below 2.                            *)
EPS == 2

(* The centers handed to dual: equal to, within EPS of, and away from the  *)
(* center 0 that the regular seeds record.                                 *)
Centers == {0, 1, 4}

(* ------------------------------------------------------------ name trees *)
Node(k, d, c, n, m, kids) ==
    [k |-> k, d |-> d, c |-> c, n |-> n, m |-> m, kids |-> kids]

Atom(k) == Node(k, "-", 0, 0, 0, <<>>)

Nullitope == Atom("Nullitope")
Point == Atom("Point")
Dyad == Atom("Dyad")

(* A variant holding one boxed child.                                      *)
Boxed(k, base) == Node(k, "-", 0, 0, 0, <<base>>)

(* A variant holding a Vec of children.                                    *)
Multi(k, bases) == Node(k, "-", 0, 0, 0, bases)

(* A variant with regularity data (and possibly a rank or n).              *)
RegNode(k, regular, n) == Node(k, regular.d, regular.c, n, 0, <<>>)

(* The regularity data of a node.                                          *)
RegOf(x) == [d |-> x.d, c |-> x.c]

RegularYes(center) == [d |-> "Yes", c |-> center]
RegularNo == [d |-> "No", c |-> 0]
AbsData == [d |-> "Abs", c |-> 0]

(* The panic of a failed unwrap / out-of-bounds index, and the overflow of *)
(* the call stack, as results.                                             *)
Panic == Atom("PANIC")
StackOverflow == Atom("STACK_OVERFLOW")
Crashed(x) == x.k \in {"PANIC", "STACK_OVERFLOW"}

MultiKinds == {"Multipyramid", "Multiprism", "Multitegum", "Multicomb"}

(* ===================== miratope-lang/src/name.rs ======================= *)

(* A variant of apply_or_lazy that applies the closure whatever the        *)
(* wrapper holds; on AbsData the closures of dual then reach a force-unwrap.*)
L_applies_f_always(d) == TRUE

(* NameData::apply_or_lazy: ConData applies the closure f to its value,    *)
(* AbsData holds nothing and returns g().                                  *)
L_applies_f(d) == d # "Abs"

(* NameData::unwrap_ref, and apply through its panicking fallback: the     *)
(* force-unwraps. ConData hands out its value, AbsData panics.             *)
L_unwrap_panics(d) == d = "Abs"

(* The wrapper T::DataPoint of a center: AbsData or ConData<Point>.        *)
L_point_data(abs) == IF abs THEN "Abs" ELSE "Con"

(* A variant of is_or in which AbsData satisfies every comparison.         *)
L_is_or_true(d, value, other) == IF L_applies_f(d) THEN d = value ELSE TRUE

(* A variant of is_or that returns the fallback whatever the wrapper holds.*)
L_is_or_fallback(d, value, other) == other

(* NameData::is_or: AbsData falls back to `other`, ConData compares.       *)
L_is_or(d, value, other) == IF L_applies_f(d) THEN d = value ELSE other

(* NameData::is_or_lazy: as is_or, the value being computed on demand.     *)
L_is_or_lazy(d, value, other) == IF L_applies_f(d) THEN d = value ELSE other

(* NameData::eq_or on the DataPoint of a Dual / Antitegum.                 *)
L_eq_or(abs, center, original_center, other) ==
    IF L_applies_f(L_point_data(abs)) THEN center = original_center ELSE other

(* eq_or evaluates value.unwrap_ref() inside the closure it hands to       *)
(* apply_or: a panic when the closure runs and the value is AbsData.       *)
L_eq_or_panics(abs) ==
    L_applies_f(L_point_data(abs)) /\ L_unwrap_panics(L_point_data(abs))

(* Default::default() of T::DataRegular: AbsData, or ConData(Regular::No). *)
L_default_regular(abs) == IF abs THEN AbsData ELSE RegularNo

L_quad(q) == Node("Quadrilateral", q, 0, 0, 0, <<>>)

L_square(abs) == L_quad(IF abs THEN "Abs" ELSE "Square")
L_rectangle(abs) == L_quad(IF abs THEN "Abs" ELSE "Rectangle")
L_orthodiagonal(abs) == L_quad(IF abs THEN "Abs" ELSE "Orthodiagonal")

L_simplex(regular, rank) ==
    CASE rank = 0 -> Nullitope
      [] rank = 1 -> Point
      [] rank = 2 -> Dyad
      [] rank = 3 -> RegNode("Triangle", regular, 0)
      [] OTHER -> RegNode("Simplex", regular, rank)

L_hyperblock(abs, regular, rank) ==
    CASE rank = 0 -> Nullitope
      [] rank = 1 -> Point
      [] rank = 2 -> Dyad
      [] rank = 3 -> IF L_is_or(regular.d, "No", FALSE)
                     THEN L_rectangle(abs) ELSE L_square(abs)
      [] rank = 4 -> RegNode("Cuboid", regular, 0)
      [] OTHER -> RegNode("Hyperblock", regular, rank)

L_orthoplex(abs, regular, rank) ==
    CASE rank = 0 -> Nullitope
      [] rank = 1 -> Point
      [] rank = 2 -> Dyad
      [] rank = 3 -> IF L_is_or(regular.d, "No", FALSE)
                     THEN L_orthodiagonal(abs) ELSE L_square(abs)
      [] OTHER -> RegNode("Orthoplex", regular, rank)

L_polygon(abs, regular, n) ==
    CASE n = 3 -> RegNode("Triangle", regular, 0)
      [] n = 4 -> IF L_is_or(regular.d, "No", FALSE)
                  THEN RegNode("Polygon", regular, n) ELSE L_square(abs)
      [] OTHER -> RegNode("Polygon", regular, n)

L_Generic(facet_count, rank) == Node("Generic", "-", 0, facet_count, rank, <<>>)

L_generic(abs, n, rank) ==
    CASE rank = 0 -> Nullitope
      [] rank = 1 -> Point
      [] rank = 2 -> Dyad
      [] rank = 3 -> L_polygon(abs, L_default_regular(abs), n)
      [] OTHER -> L_Generic(n, rank)

L_is_valid(x) ==
    CASE x.k = "Polygon" ->
           CASE x.n = 2 \/ x.n >= 5 -> TRUE
             [] x.n = 4 -> L_is_or(x.d, "No", FALSE)
             [] OTHER -> FALSE
      [] x.k \in {"Simplex", "Orthoplex"} -> x.n >= 4
      [] x.k = "Hyperblock" -> x.n >= 5
      [] x.k \in MultiKinds ->
           /\ Len(x.kids) >= 2
           /\ \A i \in 1..Len(x.kids) : x.kids[i].k # x.k
      [] x.k = "Generic" -> x.n >= 2 /\ x.m >= 4 /\ x.m <= 21
      [] OTHER -> TRUE

(* The partition loop of the multi-operand constructors: `bases` collects  *)
(* new_bases, `count` the absorbed units, `null` the early return.         *)
FoldStart == [bases |-> <<>>, count |-> 0, null |-> FALSE]

L_multipyramid_step(acc, base) ==
    CASE base.k = "Nullitope" -> acc
      [] base.k = "Point" -> [acc EXCEPT !.count = @ + 1]
      [] base.k = "Dyad" -> [acc EXCEPT !.count = @ + 2]
      [] base.k = "Triangle" -> [acc EXCEPT !.count = @ + 3]
      [] base.k = "Simplex" -> [acc EXCEPT !.count = @ + base.n]
      [] base.k = "Multipyramid" -> [acc EXCEPT !.bases = @ \o base.kids]
      [] OTHER -> [acc EXCEPT !.bases = Append(@, base)]

L_multiprism_step(acc, base) ==
    CASE base.k = "Nullitope" -> [acc EXCEPT !.null = TRUE]
      [] base.k = "Point" -> acc
      [] base.k = "Dyad" -> [acc EXCEPT !.count = @ + 1]
      [] base.k = "Quadrilateral" ->
           IF L_is_or(base.d, "Orthodiagonal", FALSE)
           THEN [acc EXCEPT !.bases = Append(@, base)]
           ELSE [acc EXCEPT !.count = @ + 2]
      [] base.k = "Cuboid" -> [acc EXCEPT !.count = @ + 3]
      [] base.k = "Hyperblock" -> [acc EXCEPT !.count = @ + base.n]
      [] base.k = "Multiprism" -> [acc EXCEPT !.bases = @ \o base.kids]
      [] OTHER -> [acc EXCEPT !.bases = Append(@, base)]

L_multitegum_step(acc, base) ==
    CASE base.k = "Nullitope" -> [acc EXCEPT !.null = TRUE]
      [] base.k = "Point" -> acc
      [] base.k = "Dyad" -> [acc EXCEPT !.count = @ + 1]
      [] base.k = "Quadrilateral" ->
           IF L_is_or(base.d, "Rectangle", FALSE)
           THEN [acc EXCEPT !.bases = Append(@, base)]
           ELSE [acc EXCEPT !.count = @ + 2]
      [] base.k = "Orthoplex" -> [acc EXCEPT !.count = @ + base.n]
      [] base.k = "Multitegum" -> [acc EXCEPT !.bases = @ \o base.kids]
      [] OTHER -> [acc EXCEPT !.bases = Append(@, base)]

(* A variant of the multicomb partition that keeps a Multicomb operand as  *)
(* one base instead of flattening it.                                      *)
L_multicomb_step_nested(acc, base) == [acc EXCEPT !.bases = Append(@, base)]

L_multicomb_step(acc, base) ==
    IF base.k = "Multicomb"
    THEN [acc EXCEPT !.bases = @ \o base.kids]
    ELSE [acc EXCEPT !.bases = Append(@, base)]

(* `for base in bases { match base ... }`; a `return` inside the loop      *)
(* stops it.                                                               *)
RECURSIVE L_fold(_, _, _, _)
L_fold(kind, bases, i, acc) ==
    IF i > Len(bases) \/ acc.null THEN acc
    ELSE L_fold(kind, bases, i + 1,
                CASE kind = "Multipyramid" -> L_multipyramid_step(acc, bases[i])
                  [] kind = "Multiprism" -> L_multiprism_step(acc, bases[i])
                  [] kind = "Multitegum" -> L_multitegum_step(acc, bases[i])
                  [] OTHER -> L_multicomb_step(acc, bases[i]))

(* `match new_bases.len() { 0 => identity, 1 => the base, _ => Multi }`    *)
L_collapse(kind, identity, new_bases) ==
    CASE Len(new_bases) = 0 -> identity
      [] Len(new_bases) = 1 -> new_bases[1]
      [] OTHER -> Multi(kind, new_bases)

L_multipyramid(abs, bases) ==
    LET acc == L_fold("Multipyramid", bases, 1, FoldStart)
        new_bases == IF acc.count >= 2
                     THEN Append(acc.bases,
                                 L_simplex(L_default_regular(abs), acc.count))
                     ELSE acc.bases
        multipyramid == L_collapse("Multipyramid", Nullitope, new_bases)
    IN  IF acc.count = 1 THEN Boxed("Pyramid", multipyramid) ELSE multipyramid

L_multiprism(abs, bases) ==
    LET acc == L_fold("Multiprism", bases, 1, FoldStart)
        new_bases == IF acc.count >= 2
                     THEN Append(acc.bases,
                                 L_hyperblock(abs, L_default_regular(abs),
                                              acc.count + 1))
                     ELSE acc.bases
        multiprism == L_collapse("Multiprism", Point, new_bases)
    IN  IF acc.null THEN Nullitope
        ELSE IF acc.count = 1 THEN Boxed("Prism", multiprism) ELSE multiprism

L_multitegum(abs, bases) ==
    LET acc == L_fold("Multitegum", bases, 1, FoldStart)
        new_bases == IF acc.count >= 2
                     THEN Append(acc.bases,
                                 L_orthoplex(abs, L_default_regular(abs),
                                             acc.count + 1))
                     ELSE acc.bases
        multitegum == L_collapse("Multitegum", Point, new_bases)
    IN  IF acc.null THEN Nullitope
        ELSE IF acc.count = 1 THEN Boxed("Tegum", multitegum) ELSE multitegum

L_multicomb(abs, bases) ==
    LET acc == L_fold("Multicomb", bases, 1, FoldStart)
    IN  L_collapse("Multicomb", Point, acc.bases)

L_multi(kind, abs, bases) ==
    CASE kind = "Multipyramid" -> L_multipyramid(abs, bases)
      [] kind = "Multiprism" -> L_multiprism(abs, bases)
      [] kind = "Multitegum" -> L_multitegum(abs, bases)
      [] OTHER -> L_multicomb(abs, bases)

L_pyramid(abs, self) ==
    CASE self.k = "Nullitope" -> Point
      [] self.k = "Point" -> Dyad
      [] self.k = "Dyad" -> RegNode("Triangle", L_default_regular(abs), 0)
      [] self.k = "Triangle" ->
           IF L_is_or(self.d, "No", FALSE)
           THEN RegNode("Simplex", L_default_regular(abs), 4)
           ELSE Boxed("Pyramid", self)
      [] self.k = "Simplex" ->
           IF L_is_or(self.d, "No", FALSE)
           THEN RegNode("Simplex", L_default_regular(abs), self.n + 1)
           ELSE Boxed("Pyramid", self)
      [] self.k = "Pyramid" -> L_multipyramid(abs, <<Dyad, self.kids[1]>>)
      [] self.k = "Multipyramid" -> L_multipyramid(abs, Append(self.kids, Point))
      [] OTHER -> Boxed("Pyramid", self)

L_prism(abs, self) ==
    CASE self.k = "Nullitope" -> Nullitope
      [] self.k = "Point" -> Dyad
      [] self.k = "Dyad" -> L_rectangle(abs)
      [] self.k = "Quadrilateral" ->
           IF L_is_or(self.d, "Orthodiagonal", FALSE)
           THEN Boxed("Prism", self)
           ELSE RegNode("Cuboid", L_default_regular(abs), 0)
      [] self.k = "Cuboid" ->
           IF L_is_or(self.d, "No", FALSE)
           THEN RegNode("Hyperblock", L_default_regular(abs), 4)
           ELSE Boxed("Prism", self)
      [] self.k = "Hyperblock" ->
           IF L_is_or(self.d, "No", FALSE)
           THEN RegNode("Hyperblock", RegOf(self), self.n + 1)
           ELSE Boxed("Prism", self)
      [] self.k = "Prism" -> L_multiprism(abs, <<L_rectangle(abs), self.kids[1]>>)
      [] self.k = "Multiprism" -> L_multiprism(abs, Append(self.kids, Dyad))
      [] OTHER -> Boxed("Prism", self)

L_tegum(abs, self) ==
    CASE self.k = "Nullitope" -> Nullitope
      [] self.k = "Point" -> Dyad
      [] self.k = "Dyad" -> L_orthodiagonal(abs)
      [] self.k = "Quadrilateral" ->
           IF L_is_or(self.d, "Rectangle", FALSE)
           THEN Boxed("Tegum", self)
           ELSE RegNode("Orthoplex", L_default_regular(abs), 4)
      [] self.k = "Orthoplex" ->
           IF L_is_or(self.d, "No", FALSE)
           THEN RegNode("Orthoplex", L_default_regular(abs), self.n + 1)
           ELSE Boxed("Tegum", self)
      [] self.k = "Tegum" -> L_multitegum(abs, <<L_orthodiagonal(abs), self.kids[1]>>)
      [] self.k = "Multitegum" -> L_multitegum(abs, Append(self.kids, Dyad))
      [] OTHER -> Boxed("Tegum", self)

L_antiprism(abs, self) ==
    CASE self.k = "Nullitope" -> Point
      [] self.k = "Point" -> Dyad
      [] self.k = "Dyad" -> L_orthodiagonal(abs)
      [] self.k = "Simplex" ->
           RegNode("Orthoplex", L_default_regular(abs), self.n + 1)
      [] OTHER -> Boxed("Antiprism", self)

(* A variant holding a boxed child and a center (Dual, Antitegum).         *)
Centered(k, base, center) == Node(k, "-", center, 0, 0, <<base>>)

(* A variant holding a boxed child and a rank (Ditope, Hosotope).          *)
Ranked(k, base, rank) == Node(k, "-", 0, rank, 0, <<base>>)

(* (c - original_center).norm() on the line of centers.                    *)
Dist(a, b) == IF a >= b THEN a - b ELSE b - a

(* A variant of the condition that compares centers exactly, without the   *)
(* EPS tolerance; it must break the dual involution near the center.       *)
L_regular_dual_cond_exact(regular, center) ==
    CASE ~L_applies_f(regular.d) -> TRUE
      [] regular.d = "Yes" -> center = regular.c
      [] OTHER -> TRUE

(* The condition of regular_dual!: AbsData yields the fallback `true`.     *)
L_regular_dual_cond(regular, center) ==
    CASE ~L_applies_f(regular.d) -> TRUE
      [] regular.d = "Yes" -> Dist(center, regular.c) < EPS
      [] OTHER -> TRUE

(* regular_dual!: the closure handed to apply_or matches the Regular and,  *)
(* when it is not Regular::No, calls center.apply, which panics on AbsData.*)
L_regular_dual_panics(abs, regular) ==
    /\ L_applies_f(regular.d)
    /\ regular.d # "No"
    /\ L_unwrap_panics(L_point_data(abs))

L_regular_dual(abs, dual, regular, n, center) ==
    CASE L_regular_dual_panics(abs, regular) -> Panic
      [] L_regular_dual_cond(regular, center) -> RegNode(dual, regular, n)
      [] OTHER -> RegNode(dual, L_default_regular(abs), n)

RECURSIVE L_dual(_, _, _, _, _)
RECURSIVE L_dual_all(_, _, _, _, _)
(* bases.into_iter().map(|base| base.dual(..)).collect()                   *)
L_dual_all(abs, bases, center, facet_count, rank) ==
    IF bases = <<>> THEN <<>>
    ELSE <<L_dual(abs, Head(bases), center, facet_count, rank)>>
         \o L_dual_all(abs, Tail(bases), center, facet_count, rank)

(* modifier_dual! *)
L_modifier_dual(abs, self, dual, center, facet_count, rank) ==
    IF abs
    THEN LET base == L_dual(abs, self.kids[1], center, facet_count, rank)
         IN  IF Crashed(base) THEN base ELSE Boxed(dual, base)
    ELSE Centered("Dual", self, center)

(* multimodifier_dual! *)
L_multimodifier_dual(abs, self, dual, center, facet_count, rank) ==
    IF abs
    THEN LET bases == L_dual_all(abs, self.kids, center, facet_count, rank)
         IN  IF \E i \in DOMAIN bases : Crashed(bases[i])
             THEN Panic
             ELSE Multi(dual, bases)
    ELSE Centered("Dual", self, center)

L_dual(abs, self, center, facet_count, rank) ==
    CASE self.k \in {"Nullitope", "Point", "Dyad"} -> self
      [] self.k = "Triangle" ->
           L_regular_dual(abs, "Triangle", RegOf(self), 0, center)
      [] self.k = "Quadrilateral" ->
           IF L_is_or(self.d, "Orthodiagonal", TRUE)
           THEN L_polygon(abs, L_default_regular(abs), 4)
           ELSE L_orthodiagonal(abs)
      [] self.k = "Dual" ->
           CASE L_eq_or_panics(abs) -> Panic
             [] L_eq_or(abs, center, self.c, TRUE) -> self.kids[1]
             [] OTHER -> L_Generic(facet_count, rank)
      [] self.k = "Polygon" ->
           L_regular_dual(abs, "Polygon", RegOf(self), self.n, center)
      [] self.k = "Simplex" ->
           L_regular_dual(abs, "Simplex", RegOf(self), self.n, center)
      [] self.k = "Hyperblock" ->
           L_regular_dual(abs, "Orthoplex", RegOf(self), self.n, center)
      [] self.k = "Orthoplex" ->
           L_regular_dual(abs, "Hyperblock", RegOf(self), self.n, center)
      [] self.k = "Pyramid" ->
           L_modifier_dual(abs, self, "Pyramid", center, facet_count, rank)
      [] self.k = "Prism" ->
           L_modifier_dual(abs, self, "Tegum", center, facet_count, rank)
      [] self.k = "Tegum" ->
           L_modifier_dual(abs, self, "Prism", center, facet_count, rank)
      [] self.k = "Antiprism" -> Centered("Antitegum", self.kids[1], center)
      [] self.k = "Antitegum" ->
           CASE L_eq_or_panics(abs) -> Panic
             [] L_eq_or(abs, center, self.c, TRUE) ->
                  Boxed("Antiprism", self.kids[1])
             [] OTHER -> Centered("Dual", self, center)
      [] self.k = "Multipyramid" ->
           L_multimodifier_dual(abs, self, "Multipyramid", center, facet_count, rank)
      [] self.k = "Multiprism" ->
           L_multimodifier_dual(abs, self, "Multitegum", center, facet_count, rank)
      [] self.k = "Multitegum" ->
           L_multimodifier_dual(abs, self, "Multiprism", center, facet_count, rank)
      [] self.k = "Multicomb" ->
           L_multimodifier_dual(abs, self, "Multicomb", center, facet_count, rank)
      [] OTHER -> Centered("Dual", self, center)

L_ditope(abs, self, rank) ==
    CASE self.k = "Nullitope" -> Nullitope
      [] self.k = "Point" -> Dyad
      [] self.k = "Dyad" -> L_polygon(abs, L_default_regular(abs), 2)
      [] OTHER -> Ranked("Ditope", self, rank)

L_hosotope(abs, self, rank) ==
    CASE self.k = "Nullitope" -> Nullitope
      [] self.k = "Point" -> Dyad
      [] self.k = "Dyad" -> L_polygon(abs, L_default_regular(abs), 2)
      [] OTHER -> Ranked("Hosotope", self, rank)

(* A variant of petrial that always wraps, never unwrapping a Petrial.     *)
L_petrial_wrap(self) == Boxed("Petrial", self)

L_petrial(self) ==
    IF self.k = "Petrial" THEN self.kids[1] ELSE Boxed("Petrial", self)


(* ========================= src/lang/name.rs ============================ *)

(* Option<isize> / Option<usize>, with the panic of the evaluation as a    *)
(* third outcome.                                                          *)
Some(v) == [t |-> "Some", v |-> v]
None == [t |-> "None", v |-> 0]
OptPanic == [t |-> "Panic", v |-> 0]

(* usize::MAX, standing at the largest integer the checker holds: `as      *)
(* usize` of a negative isize wraps around it.                             *)
UsizeMax == (2^30 - 1) + 2^30
AsUsize(v) == IF v < 0 THEN UsizeMax + (v + 1) ELSE v
AsIsize(u) == IF u > UsizeMax \div 2 THEN (u - UsizeMax) - 1 ELSE u

(* One (multiplicity, name) entry of a Compound.                           *)
Component(rep, name) == Node("Component", "-", 0, rep, 0, <<name>>)

(* T::DataBool::new(value) *)
S_new(abs, value) == IF abs THEN "Abs" ELSE IF value THEN "true" ELSE "false"

(* NameData::contains *)
S_contains(d, value) ==
    IF d = "Abs" THEN TRUE ELSE d = (IF value THEN "true" ELSE "false")

S_Reg(k, d, n) == Node(k, d, 0, n, 0, <<>>)
S_Generic(n, rank) == Node("Generic", "-", 0, n, rank, <<>>)

RECURSIVE S_rank(_)
RECURSIVE S_rank_sum(_, _, _, _)
(* The loop of rank_product: `rank += base.rank()? + offset`.              *)
S_rank_sum(bases, i, offset, rank) ==
    IF i > Len(bases) THEN Some(rank)
    ELSE LET r == S_rank(bases[i])
         IN  IF r.t # "Some" THEN r
             ELSE S_rank_sum(bases, i + 1, offset, rank + r.v + offset)

(* A variant of rank_product with the offset of Multicomb taken as +1, the *)
(* offset of Multipyramid.                                                 *)
S_rank_product_comb_as_pyramid(self) ==
    CASE self.k \in {"Multipyramid", "Multicomb"} ->
           S_rank_sum(self.kids, 1, 1, -1)
      [] self.k \in {"Multiprism", "Multitegum"} -> S_rank_sum(self.kids, 1, 0, 0)
      [] OTHER -> None

S_rank_product(self) ==
    CASE self.k = "Multipyramid" -> S_rank_sum(self.kids, 1, 1, -1)
      [] self.k \in {"Multiprism", "Multitegum"} -> S_rank_sum(self.kids, 1, 0, 0)
      [] self.k = "Multicomb" -> S_rank_sum(self.kids, 1, -1, 1)
      [] OTHER -> None

S_rank(self) ==
    CASE self.k = "Nullitope" -> Some(-1)
      [] self.k = "Point" -> Some(0)
      [] self.k = "Dyad" -> Some(1)
      [] self.k \in {"Triangle", "Square", "Rectangle", "Orthodiagonal", "Polygon"} ->
           Some(2)
      [] self.k \in {"Simplex", "Hyperblock", "Orthoplex"} -> Some(AsIsize(self.n))
      [] self.k = "Dual" -> S_rank(self.kids[1])
      [] self.k = "Generic" -> Some(AsIsize(self.m))
      [] self.k \in {"Pyramid", "Prism", "Tegum"} ->
           LET r == S_rank(self.kids[1])
           IN  IF r.t = "Some" THEN Some(r.v + 1) ELSE r
      [] self.k \in MultiKinds -> S_rank_product(self)
      [] self.k = "Compound" ->
           IF Len(self.kids) = 0 THEN OptPanic
           ELSE S_rank(self.kids[1].kids[1])
      [] OTHER -> OptPanic

RECURSIVE Pow2(_)
Pow2(e) == IF e <= 0 THEN 1 ELSE 2 * Pow2(e - 1)

RECURSIVE S_facet_count(_)
RECURSIVE S_facet_fold(_, _, _, _)
RECURSIVE S_facet_fold_sum(_, _, _, _)
(* A variant of the loops of facet_count that always sums, also where the  *)
(* code multiplies.                                                        *)
S_facet_fold_sum(bases, i, product, acc) ==
    IF i > Len(bases) THEN Some(acc)
    ELSE LET b == bases[i]
             f == IF b.k = "Component" THEN S_facet_count(b.kids[1])
                  ELSE S_facet_count(b)
             rep == IF b.k = "Component" THEN b.n ELSE 1
         IN  IF f.t # "Some" THEN f
             ELSE S_facet_fold_sum(bases, i + 1, product, acc + rep * f.v)

(* The loops of facet_count: the product or the (weighted) sum of the     *)
(* children's facet_count()?.                                              *)
S_facet_fold(bases, i, product, acc) ==
    IF i > Len(bases) THEN Some(acc)
    ELSE LET b == bases[i]
             f == IF b.k = "Component" THEN S_facet_count(b.kids[1])
                  ELSE S_facet_count(b)
             rep == IF b.k = "Component" THEN b.n ELSE 1
         IN  IF f.t # "Some" THEN f
             ELSE S_facet_fold(bases, i + 1, product,
                               IF product THEN acc * f.v ELSE acc + rep * f.v)

S_facet_count(self) ==
    CASE self.k = "Nullitope" -> Some(0)
      [] self.k = "Point" -> Some(1)
      [] self.k = "Dyad" -> Some(2)
      [] self.k = "Triangle" -> Some(3)
      [] self.k \in {"Square", "Rectangle", "Orthodiagonal"} -> Some(4)
      [] self.k \in {"Polygon", "Generic"} -> Some(self.n)
      [] self.k = "Simplex" -> Some(self.n + 1)
      [] self.k = "Hyperblock" -> Some(self.n * 2)
      [] self.k = "Orthoplex" -> Some(Pow2(self.n))
      [] self.k \in {"Multipyramid", "Multitegum"} ->
           S_facet_fold(self.kids, 1, TRUE, 1)
      [] self.k \in {"Multiprism", "Multicomb"} ->
           S_facet_fold(self.kids, 1, FALSE, 0)
      [] self.k = "Pyramid" ->
           LET f == S_facet_count(self.kids[1])
           IN  IF f.t = "Some" THEN Some(f.v + 1) ELSE f
      [] self.k = "Prism" ->
           LET f == S_facet_count(self.kids[1])
           IN  IF f.t = "Some" THEN Some(2 * (f.v + 1)) ELSE f
      [] self.k = "Tegum" ->
           LET f == S_facet_count(self.kids[1])
           IN  IF f.t = "Some" THEN Some(2 * f.v) ELSE f
      [] self.k = "Compound" -> S_facet_fold(self.kids, 1, FALSE, 0)
      [] OTHER -> None

S_is_valid(self) ==
    CASE self.k = "Polygon" -> self.n >= 5
      [] self.k \in {"Simplex", "Hyperblock", "Orthoplex"} -> self.n >= 3
      [] self.k \in MultiKinds ->
           /\ Len(self.kids) >= 2
           /\ \A i \in 1..Len(self.kids) : self.kids[i].k # self.k
      [] self.k = "Generic" -> self.n >= 2 /\ self.m >= 3 /\ self.m <= 20
      [] OTHER -> TRUE

S_rectangle(abs) == IF abs THEN Atom("Square") ELSE Atom("Rectangle")
S_orthodiagonal(abs) == IF abs THEN Atom("Square") ELSE Atom("Orthodiagonal")

S_generic(abs, n, d) ==
    CASE d = -1 -> Nullitope
      [] d = 0 -> Point
      [] d = 1 -> Dyad
      [] d = 2 ->
           CASE n = 3 -> S_Reg("Triangle", S_new(abs, FALSE), 0)
             [] n = 4 -> IF abs THEN Atom("Square")
                         ELSE S_Reg("Polygon", S_new(abs, FALSE), 4)
             [] OTHER -> S_Reg("Polygon", S_new(abs, FALSE), n)
      [] OTHER -> S_Generic(n, AsUsize(d))

S_simplex(regular, rank) ==
    CASE rank = -1 -> Nullitope
      [] rank = 0 -> Point
      [] rank = 1 -> Dyad
      [] rank = 2 -> S_Reg("Triangle", regular, 0)
      [] OTHER -> S_Reg("Simplex", regular, AsUsize(rank))

S_cuboid(regular, rank) ==
    CASE rank = -1 -> Nullitope
      [] rank = 0 -> Point
      [] rank = 1 -> Dyad
      [] rank = 2 -> IF S_contains(regular, TRUE)
                     THEN Atom("Square") ELSE Atom("Rectangle")
      [] OTHER -> S_Reg("Hyperblock", regular, AsUsize(rank))

S_orthoplex(regular, rank) ==
    CASE rank = -1 -> Nullitope
      [] rank = 0 -> Point
      [] rank = 1 -> Dyad
      [] rank = 2 -> IF S_contains(regular, TRUE)
                     THEN Atom("Square") ELSE Atom("Orthodiagonal")
      [] OTHER -> S_Reg("Orthoplex", regular, AsUsize(rank))

S_polygon(regular, n) ==
    IF n = 3 THEN S_Reg("Triangle", regular, 0) ELSE S_Generic(n, 2)

(* The sort key of base_cmp: (rank.unwrap_or(-2), facet_count.unwrap_or(0)), *)
(* or the panic of rank().                                                 *)
S_sort_key(base) ==
    LET r == S_rank(base)
        f == S_facet_count(base)
    IN  [panic |-> r.t = "Panic",
         rank |-> IF r.t = "Some" THEN r.v ELSE -2,
         fc |-> IF f.t = "Some" THEN f.v ELSE 0]

(* base_cmp(base0, base1) != Ordering::Greater *)
S_base_le(base0, base1) ==
    LET k0 == S_sort_key(base0)
        k1 == S_sort_key(base1)
    IN  \/ k0.rank < k1.rank
        \/ (k0.rank = k1.rank /\ k0.fc <= k1.fc)

(* The name an entry of a sorted list is compared by.                      *)
NameOf(e) == IF e.k = "Component" THEN e.kids[1] ELSE e

(* Inserts x after every element that does not compare greater (the sort   *)
(* is stable).                                                             *)
RECURSIVE S_insert(_, _)
S_insert(sorted, x) ==
    IF sorted = <<>> THEN <<x>>
    ELSE LET last == sorted[Len(sorted)]
         IN  IF S_base_le(NameOf(last), NameOf(x)) THEN Append(sorted, x)
             ELSE Append(S_insert(SubSeq(sorted, 1, Len(sorted) - 1), x), last)

RECURSIVE S_sort_from(_, _, _)
S_sort_from(bases, i, sorted) ==
    IF i > Len(bases) THEN sorted
    ELSE S_sort_from(bases, i + 1, S_insert(sorted, bases[i]))

(* A variant that leaves the bases in the order they were collected.       *)
S_unsorted(bases) == bases

(* new_bases.sort_by(&Self::base_cmp) *)
S_sorted(bases) == S_sort_from(bases, 1, <<>>)

(* Whether sorting the list panics: with two or more entries every entry   *)
(* is compared, and base_cmp evaluates rank() of both its arguments.       *)
S_sort_panics(bases) ==
    /\ Len(bases) >= 2
    /\ \E i \in 1..Len(bases) : S_sort_key(NameOf(bases[i])).panic


(* A variant of the multipyramid partition in which a Point is absorbed    *)
(* with the weight of a Dyad.                                              *)
S_multipyramid_step_double(acc, base) ==
    CASE base.k = "Nullitope" -> acc
      [] base.k \in {"Point", "Dyad"} -> [acc EXCEPT !.count = @ + 2]
      [] base.k = "Triangle" -> [acc EXCEPT !.count = @ + 2]
      [] base.k = "Simplex" -> [acc EXCEPT !.count = @ + base.n + 1]
      [] base.k = "Multipyramid" -> [acc EXCEPT !.bases = @ \o base.kids]
      [] OTHER -> [acc EXCEPT !.bases = Append(@, base)]

S_multipyramid_step(acc, base) ==
    CASE base.k = "Nullitope" -> acc
      [] base.k = "Point" -> [acc EXCEPT !.count = @ + 1]
      [] base.k = "Dyad" -> [acc EXCEPT !.count = @ + 2]
      [] base.k = "Triangle" -> [acc EXCEPT !.count = @ + 2]
      [] base.k = "Simplex" -> [acc EXCEPT !.count = @ + base.n + 1]
      [] base.k = "Multipyramid" -> [acc EXCEPT !.bases = @ \o base.kids]
      [] OTHER -> [acc EXCEPT !.bases = Append(@, base)]

S_multiprism_step(acc, base) ==
    CASE base.k = "Nullitope" -> [acc EXCEPT !.null = TRUE]
      [] base.k = "Point" -> acc
      [] base.k = "Dyad" -> [acc EXCEPT !.count = @ + 1]
      [] base.k \in {"Square", "Rectangle"} -> [acc EXCEPT !.count = @ + 2]
      [] base.k = "Hyperblock" -> [acc EXCEPT !.count = @ + base.n]
      [] base.k = "Multiprism" -> [acc EXCEPT !.bases = @ \o base.kids]
      [] OTHER -> [acc EXCEPT !.bases = Append(@, base)]

S_multitegum_step(acc, base) ==
    CASE base.k = "Nullitope" -> [acc EXCEPT !.null = TRUE]
      [] base.k = "Point" -> acc
      [] base.k = "Dyad" -> [acc EXCEPT !.count = @ + 1]
      [] base.k = "Square" -> [acc EXCEPT !.count = @ + 2]
      [] base.k = "Orthoplex" -> [acc EXCEPT !.count = @ + base.n]
      [] base.k = "Multitegum" -> [acc EXCEPT !.bases = @ \o base.kids]
      [] OTHER -> [acc EXCEPT !.bases = Append(@, base)]

S_multicomb_step(acc, base) ==
    IF base.k = "Multicomb"
    THEN [acc EXCEPT !.bases = @ \o base.kids]
    ELSE [acc EXCEPT !.bases = Append(@, base)]

RECURSIVE S_fold(_, _, _, _)
S_fold(kind, bases, i, acc) ==
    IF i > Len(bases) \/ acc.null THEN acc
    ELSE S_fold(kind, bases, i + 1,
                CASE kind = "Multipyramid" -> S_multipyramid_step(acc, bases[i])
                  [] kind = "Multiprism" -> S_multiprism_step(acc, bases[i])
                  [] kind = "Multitegum" -> S_multitegum_step(acc, bases[i])
                  [] OTHER -> S_multicomb_step(acc, bases[i]))

(* `match new_bases.len() { 0 => identity, 1 => swap_remove(0), _ => .. }` *)
S_collapse(kind, identity, new_bases) ==
    CASE Len(new_bases) = 0 -> identity
      [] Len(new_bases) = 1 -> new_bases[1]
      [] OTHER -> Multi(kind, new_bases)

(* The constructors below call each other; `depth` is the room left on the *)
(* call stack, and a call that finds none overflows it.                    *)
RECURSIVE S_pyramid(_, _, _)
RECURSIVE S_prism(_, _, _)
RECURSIVE S_tegum(_, _, _)

S_multipyramid(abs, bases, depth) ==
    LET acc == S_fold("Multipyramid", bases, 1, FoldStart)
        new_bases == IF acc.count >= 2
                     THEN Append(acc.bases,
                                 S_simplex(S_new(abs, FALSE), acc.count - 1))
                     ELSE acc.bases
        multipyramid == S_collapse("Multipyramid", Nullitope, S_sorted(new_bases))
    IN  CASE depth = 0 -> StackOverflow
          [] S_sort_panics(new_bases) -> Panic
          [] acc.count = 1 -> S_pyramid(abs, multipyramid, depth - 1)
          [] OTHER -> multipyramid

S_multiprism(abs, bases, depth) ==
    LET acc == S_fold("Multiprism", bases, 1, FoldStart)
        new_bases == IF acc.count >= 2
                     THEN Append(acc.bases,
                                 S_cuboid(S_new(abs, FALSE), acc.count))
                     ELSE acc.bases
        multiprism == S_collapse("Multiprism", Point, S_sorted(new_bases))
    IN  CASE depth = 0 -> StackOverflow
          [] acc.null -> Nullitope
          [] S_sort_panics(new_bases) -> Panic
          [] acc.count = 1 -> S_prism(abs, multiprism, depth - 1)
          [] OTHER -> multiprism

S_multitegum(abs, bases, depth) ==
    LET acc == S_fold("Multitegum", bases, 1, FoldStart)
        new_bases == IF acc.count >= 2
                     THEN Append(acc.bases,
                                 S_orthoplex(S_new(abs, FALSE), acc.count))
                     ELSE acc.bases
        multitegum == S_collapse("Multitegum", Point, S_sorted(new_bases))
    IN  CASE depth = 0 -> StackOverflow
          [] acc.null -> Nullitope
          [] S_sort_panics(new_bases) -> Panic
          [] acc.count = 1 -> S_tegum(abs, multitegum, depth - 1)
          [] OTHER -> multitegum

S_multicomb(abs, bases, depth) ==
    LET acc == S_fold("Multicomb", bases, 1, FoldStart)
    IN  CASE depth = 0 -> StackOverflow
          [] S_sort_panics(acc.bases) -> Panic
          [] OTHER -> S_collapse("Multicomb", Point, S_sorted(acc.bases))

S_pyramid(abs, self, depth) ==
    CASE depth = 0 -> StackOverflow
      [] self.k = "Nullitope" -> Nullitope
      [] self.k = "Point" -> Dyad
      [] self.k = "Dyad" -> S_Reg("Triangle", S_new(abs, FALSE), 0)
      [] self.k = "Triangle" -> S_Reg("Simplex", self.d, 3)
      [] self.k = "Simplex" ->
           IF abs \/ S_contains(self.d, FALSE)
           THEN S_Reg("Simplex", self.d, self.n + 1)
           ELSE Boxed("Pyramid", self)
      [] self.k = "Pyramid" ->
           S_multipyramid(abs, <<self.kids[1], Dyad>>, depth - 1)
      [] self.k = "Multipyramid" ->
           S_multipyramid(abs, Append(self.kids, Point), depth - 1)
      [] OTHER -> Boxed("Pyramid", self)

S_prism(abs, self, depth) ==
    CASE depth = 0 -> StackOverflow
      [] self.k = "Nullitope" -> Nullitope
      [] self.k = "Point" -> Dyad
      [] self.k = "Dyad" -> S_rectangle(abs)
      [] self.k = "Rectangle" -> S_Reg("Hyperblock", S_new(abs, FALSE), 3)
      [] self.k = "Hyperblock" ->
           IF abs \/ S_contains(self.d, FALSE)
           THEN S_Reg("Hyperblock", self.d, self.n + 1)
           ELSE Boxed("Prism", self)
      [] self.k = "Prism" ->
           S_multiprism(abs, <<self.kids[1], S_rectangle(abs)>>, depth - 1)
      [] self.k = "Multiprism" ->
           S_multiprism(abs, Append(self.kids, Dyad), depth - 1)
      [] OTHER -> Boxed("Prism", self)

S_tegum(abs, self, depth) ==
    CASE depth = 0 -> StackOverflow
      [] self.k = "Nullitope" -> Nullitope
      [] self.k = "Point" -> Dyad
      [] self.k = "Dyad" -> S_orthodiagonal(abs)
      [] self.k = "Orthodiagonal" -> S_Reg("Orthoplex", S_new(abs, FALSE), 3)
      [] self.k = "Orthoplex" ->
           IF abs \/ S_contains(self.d, FALSE)
           THEN S_Reg("Orthoplex", self.d, self.n + 1)
           ELSE Boxed("Tegum", self)
      [] self.k = "Tegum" ->
           S_multitegum(abs, <<self.kids[1], Atom("Orthodiagonal")>>, depth - 1)
      [] self.k = "Multitegum" ->
           S_multitegum(abs, Append(self.kids, Dyad), depth - 1)
      [] OTHER -> Boxed("Tegum", self)

S_multi(kind, abs, bases, depth) ==
    CASE kind = "Multipyramid" -> S_multipyramid(abs, bases, depth)
      [] kind = "Multiprism" -> S_multiprism(abs, bases, depth)
      [] kind = "Multitegum" -> S_multitegum(abs, bases, depth)
      [] OTHER -> S_multicomb(abs, bases, depth)

(* `center == original_center` on T::DataPoint: any two AbsData are equal. *)
S_center_eq(abs, center, original_center) ==
    IF abs THEN TRUE ELSE center = original_center

RECURSIVE S_dual(_, _, _)
RECURSIVE S_dual_all(_, _, _)
S_dual_all(abs, bases, center) ==
    IF bases = <<>> THEN <<>>
    ELSE <<S_dual(abs, Head(bases), center)>> \o S_dual_all(abs, Tail(bases), center)

AnyCrashed(names) == \E i \in 1..Len(names) : Crashed(names[i])

(* A node built over the duals of the children; a panic in one of them     *)
(* unwinds through the caller.                                             *)
S_over_duals(kind, duals) ==
    IF AnyCrashed(duals) THEN Panic ELSE Multi(kind, duals)

(* The Dual arm with differing centers: Generic from the base's own        *)
(* facet_count().unwrap() and rank().unwrap().                             *)
S_dual_of_dual(base) ==
    LET f == S_facet_count(base)
        r == S_rank(base)
    IN  IF f.t # "Some" \/ r.t # "Some" THEN Panic
        ELSE S_Generic(f.v, AsUsize(r.v))

S_dual(abs, self, center) ==
    CASE self.k \in {"Nullitope", "Point", "Dyad"} -> self
      [] self.k = "Dual" ->
           IF S_center_eq(abs, center, self.c) THEN self.kids[1]
           ELSE S_dual_of_dual(self.kids[1])
      [] self.k \in {"Square", "Rectangle"} -> S_orthodiagonal(abs)
      [] self.k = "Orthodiagonal" -> S_polygon(S_new(abs, FALSE), 4)
      [] self.k = "Simplex" -> S_Reg("Simplex", S_new(abs, FALSE), self.n)
      [] self.k = "Hyperblock" -> S_Reg("Orthoplex", S_new(abs, FALSE), self.n)
      [] self.k = "Orthoplex" -> S_Reg("Hyperblock", S_new(abs, FALSE), self.n)
      [] self.k = "Generic" ->
           IF self.m <= 2 THEN self ELSE Centered("Dual", self, center)
      [] self.k = "Pyramid" ->
           IF abs THEN S_over_duals("Pyramid", S_dual_all(abs, self.kids, center))
           ELSE Centered("Dual", Boxed("Prism", self.kids[1]), center)
      [] self.k = "Prism" ->
           IF abs THEN S_over_duals("Tegum", S_dual_all(abs, self.kids, center))
           ELSE Centered("Dual", Boxed("Prism", self.kids[1]), center)
      [] self.k = "Tegum" ->
           IF abs THEN S_over_duals("Prism", S_dual_all(abs, self.kids, center))
           ELSE Centered("Dual", Boxed("Prism", self.kids[1]), center)
      [] self.k = "Multipyramid" ->
           S_over_duals("Multipyramid", S_dual_all(abs, self.kids, center))
      [] self.k = "Multiprism" ->
           IF abs THEN S_over_duals("Multitegum", S_dual_all(abs, self.kids, center))
           ELSE Centered("Dual", self, center)
      [] self.k = "Multitegum" ->
           IF abs THEN S_over_duals("Multiprism", S_dual_all(abs, self.kids, center))
           ELSE Centered("Dual", self, center)
      [] self.k = "Multicomb" ->
           IF abs THEN S_over_duals("Multicomb", S_dual_all(abs, self.kids, center))
           ELSE Centered("Dual", self, center)
      [] OTHER -> Centered("Dual", self, center)

(* The flattening loops of compound: a Compound entry is replaced by its   *)
(* own components, any other is kept.                                      *)
RECURSIVE S_compound_flatten(_, _, _)
S_compound_flatten(components, i, out) ==
    IF i > Len(components) THEN out
    ELSE S_compound_flatten(components, i + 1,
            IF components[i].kids[1].k = "Compound"
            THEN out \o components[i].kids[1].kids
            ELSE Append(out, components[i]))

(* `.group_by(|(_, name)| name.clone())`: consecutive entries with equal   *)
(* names become one entry, their multiplicities summed; a group whose name *)
(* is a Compound contributes that Compound's components.                   *)
RECURSIVE S_compound_group(_, _, _)
S_compound_group(components, i, out) ==
    IF i > Len(components) THEN out
    ELSE LET e == components[i]
             last == out[Len(out)]
             same == /\ i > 1
                     /\ components[i - 1].kids[1] = e.kids[1]
         IN  S_compound_group(components, i + 1,
                CASE e.kids[1].k = "Compound" ->
                       IF same THEN out ELSE out \o e.kids[1].kids
                  [] same ->
                       [out EXCEPT ![Len(out)] =
                           Component(last.n + e.n, last.kids[1])]
                  [] OTHER -> Append(out, e))

S_compound(components) ==
    LET new_components == S_compound_flatten(S_sorted(components), 1, <<>>)
        grouped == S_compound_group(S_sorted(new_components), 1, <<>>)
    IN  CASE S_sort_panics(components) -> Panic
          [] S_sort_panics(new_components) -> Panic
          [] Len(grouped) = 1 -> grouped[1].kids[1]
          [] OTHER -> Node("Compound", "-", 0, 0, 0, grouped)


(* ===================== the callers of the constructors ================= *)

(* The rank (Nullitope = 0) of the polytope a name of miratope-lang        *)
(* describes, which the caller of dual, ditope and hosotope supplies: the  *)
(* rank rules of the data model.                                           *)
RECURSIVE L_true_rank(_)
RECURSIVE L_true_rank_sum(_, _, _, _)
L_true_rank_sum(bases, i, offset, rank) ==
    IF i > Len(bases) THEN rank
    ELSE L_true_rank_sum(bases, i + 1, offset,
                         rank + (L_true_rank(bases[i]) - 1) + offset)

L_true_rank(x) ==
    CASE x.k = "Nullitope" -> 0
      [] x.k = "Point" -> 1
      [] x.k = "Dyad" -> 2
      [] x.k \in {"Triangle", "Quadrilateral", "Polygon"} -> 3
      [] x.k = "Cuboid" -> 4
      [] x.k \in {"Simplex", "Hyperblock", "Orthoplex", "Ditope", "Hosotope"} -> x.n
      [] x.k = "Generic" -> x.m
      [] x.k \in {"Pyramid", "Prism", "Tegum", "Antiprism", "Antitegum"} ->
           L_true_rank(x.kids[1]) + 1
      [] x.k \in {"Petrial", "Dual"} -> L_true_rank(x.kids[1])
      [] x.k = "Multipyramid" -> 1 + L_true_rank_sum(x.kids, 1, 1, -1)
      [] x.k \in {"Multiprism", "Multitegum"} -> 1 + L_true_rank_sum(x.kids, 1, 0, 0)
      [] x.k = "Multicomb" -> 1 + L_true_rank_sum(x.kids, 1, -1, 1)
      [] OTHER -> 0

(* The facet counts a caller of dual passes.                               *)
FacetCounts == {2, 6}

Abs == regime = "Abs"

(* The values of T::DataRegular a caller can supply: AbsData, or a         *)
(* ConData holding Regular::No or Regular::Yes with the center 0.          *)
L_Regulars == IF Abs THEN {AbsData} ELSE {RegularNo, RegularYes(0)}

(* The values of T::DataBool a caller can supply.                          *)
S_Regulars == IF Abs THEN {"Abs"} ELSE {"false", "true"}

DualCenters == IF Abs THEN {0} ELSE Centers

Atoms == {Nullitope, Point, Dyad}

(* The names a run starts from: the atoms, and the results of the helper   *)
(* constructors (which count as the run's first constructor call).         *)
L_Seeds ==
    Atoms
    \cup {L_simplex(r, k) : r \in L_Regulars, k \in {3, 4}}
    \cup {L_hyperblock(Abs, r, k) : r \in L_Regulars, k \in {3, 4, 5}}
    \cup {L_orthoplex(Abs, r, k) : r \in L_Regulars, k \in {3, 4}}
    \cup {L_polygon(Abs, r, k) : r \in L_Regulars, k \in {4, 5}}
    \cup {L_generic(Abs, 6, 4)}

S_Seeds ==
    Atoms
    \cup {S_simplex(r, k) : r \in S_Regulars, k \in {2, 3}}
    \cup {S_cuboid(r, k) : r \in S_Regulars, k \in {2, 3}}
    \cup {S_orthoplex(r, k) : r \in S_Regulars, k \in {2, 3}}
    \cup {S_polygon(r, k) : r \in S_Regulars, k \in {4, 5}}
    \cup {S_generic(Abs, n, d) : n \in {4, 6}, d \in {2, 3}}

OpRec(name, c, args) == [name |-> name, c |-> c, args |-> args]

Init ==
    /\ lib \in {"L", "S"}
    /\ regime \in {"Abs", "Con"}
    /\ cur \in (IF lib = "L" THEN L_Seeds ELSE S_Seeds)
    /\ prev = cur
    /\ op = OpRec(IF cur \in Atoms THEN "atom" ELSE "helper", 0, <<>>)
    /\ lst = <<>>
    /\ atomic = (cur \in Atoms)
    /\ steps = (IF cur \in Atoms THEN 0 ELSE 1)

(* A constructor call that consumes `cur` and returns `result`.            *)
Call(l, name, c, args, result) ==
    /\ lib = l
    /\ steps < MaxSteps
    /\ ~Crashed(cur)
    /\ cur' = result
    /\ prev' = cur
    /\ op' = OpRec(name, c, args)
    /\ steps' = steps + 1
    /\ UNCHANGED <<lib, regime, atomic>>

(* The caller keeps a copy of the current name as the next operand.        *)
Push ==
    /\ Len(lst) < MaxLen
    /\ steps < MaxSteps
    /\ ~Crashed(cur)
    /\ lst' = Append(lst, cur)
    /\ UNCHANGED <<lib, regime, cur, prev, op, atomic, steps>>

LPyramid == Call("L", "pyramid", 0, <<>>, L_pyramid(Abs, cur)) /\ UNCHANGED lst
LPrism == Call("L", "prism", 0, <<>>, L_prism(Abs, cur)) /\ UNCHANGED lst
LTegum == Call("L", "tegum", 0, <<>>, L_tegum(Abs, cur)) /\ UNCHANGED lst
LAntiprism == Call("L", "antiprism", 0, <<>>, L_antiprism(Abs, cur)) /\ UNCHANGED lst
LPetrial == Call("L", "petrial", 0, <<>>, L_petrial(cur)) /\ UNCHANGED lst

LDitope ==
    /\ Call("L", "ditope", 0, <<>>, L_ditope(Abs, cur, L_true_rank(cur) + 1))
    /\ UNCHANGED lst

LHosotope ==
    /\ Call("L", "hosotope", 0, <<>>, L_hosotope(Abs, cur, L_true_rank(cur) + 1))
    /\ UNCHANGED lst

LDual ==
    \E center \in DualCenters, facet_count \in FacetCounts :
        /\ Call("L", "dual", center, <<>>,
                L_dual(Abs, cur, center, facet_count, L_true_rank(cur)))
        /\ UNCHANGED lst

LMulti ==
    \E kind \in MultiKinds :
        /\ Call("L", kind, 0, lst, L_multi(kind, Abs, lst))
        /\ lst' = <<>>

SPyramid == Call("S", "pyramid", 0, <<>>, S_pyramid(Abs, cur, MaxStack)) /\ UNCHANGED lst
SPrism == Call("S", "prism", 0, <<>>, S_prism(Abs, cur, MaxStack)) /\ UNCHANGED lst
STegum == Call("S", "tegum", 0, <<>>, S_tegum(Abs, cur, MaxStack)) /\ UNCHANGED lst

SDual ==
    \E center \in DualCenters :
        /\ Call("S", "dual", center, <<>>, S_dual(Abs, cur, center))
        /\ UNCHANGED lst

SMulti ==
    \E kind \in MultiKinds :
        /\ Call("S", kind, 0, lst, S_multi(kind, Abs, lst, MaxStack))
        /\ lst' = <<>>

(* The (multiplicity, name) list of a compound call over the operands,     *)
(* which the caller passes in the order of its choice.                     *)
Components(reps, order) ==
    [i \in DOMAIN reps |-> Component(reps[i], lst[order[i]])]

SCompound ==
    \E reps \in [1..Len(lst) -> 1..MaxRep] :
        \E order \in Permutations(1..Len(lst)) :
            /\ Call("S", "compound", 0, Components(reps, order),
                    S_compound(Components(reps, order)))
            /\ lst' = <<>>

Next ==
    \/ Push
    \/ LPyramid \/ LPrism \/ LTegum \/ LAntiprism \/ LPetrial
    \/ LDitope \/ LHosotope \/ LDual \/ LMulti
    \/ SPyramid \/ SPrism \/ STegum \/ SDual \/ SMulti \/ SCompound

Spec == Init /\ [][Next]_vars


(* ================================ claims =============================== *)

(* C1: in miratope-lang, every name reached from Nullitope, Point or Dyad  *)
(* through the constructors satisfies is_valid.                            *)
C1_ValidityPreserved == (lib = "L" /\ atomic) => L_is_valid(cur)

(* Whether rank() of every name of a list is known.                        *)
S_ranks_known(names) == \A i \in 1..Len(names) : S_rank(names[i]).t = "Some"

(* C2: in src/lang, multipyramid of three names of known rank does not     *)
(* depend on the grouping or on the order of the operands.                 *)
C2_OrderIndependent ==
    (lib = "S" /\ Len(lst) = 3 /\ S_ranks_known(lst)) =>
        LET a == lst[1]
            b == lst[2]
            c == lst[3]
            flat == S_multipyramid(Abs, <<a, b, c>>, MaxStack)
            inner == S_multipyramid(Abs, <<a, b>>, MaxStack)
        IN  /\ ~Crashed(flat)
            /\ ~Crashed(inner)
            /\ flat = S_multipyramid(Abs, <<inner, c>>, MaxStack)
            /\ flat = S_multipyramid(Abs, <<c, b, a>>, MaxStack)

(* C3: in miratope-lang, a Multi* node returned by its multi-operand       *)
(* constructor is reproduced by that constructor from its own children.    *)
C3_Idempotent ==
    (lib = "L" /\ op.name \in MultiKinds /\ cur.k = op.name) =>
        L_multi(op.name, Abs, cur.kids) = cur

(* Whether dual(x, center) takes the branch that returns a Generic name.   *)
L_dual_is_generic(x, center) ==
    x.k = "Dual" /\ ~L_eq_or(Abs, center, x.c, TRUE)

(* dual(cur, c) once more after `cur = dual(prev, c)`.                     *)
L_dual_again(facet_count) ==
    L_dual(Abs, cur, op.c, facet_count, L_true_rank(cur))

(* C4: in miratope-lang, dual(dual(n, c), c) = n whenever neither call     *)
(* takes the Generic branch, in both regimes.                              *)
C4_DualInvolution ==
    (/\ lib = "L"
     /\ op.name = "dual"
     /\ ~L_dual_is_generic(prev, op.c)
     /\ ~L_dual_is_generic(cur, op.c)) =>
        \A facet_count \in FacetCounts : L_dual_again(facet_count) = prev

(* Whether the dual of x with the given center loses information in the    *)
(* concrete regime: a Quadrilateral, or a regular shape whose recorded     *)
(* center is not within EPS of the center.                                 *)
L_dual_degrades(x, center) ==
    \/ x.k = "Quadrilateral"
    \/ /\ x.k \in {"Triangle", "Polygon", "Simplex", "Hyperblock", "Orthoplex"}
       /\ x.d = "Yes"
       /\ Dist(center, x.c) >= EPS

(* C4 as amended: the involution holds in the abstract regime, and in the  *)
(* concrete regime for every name that is neither a Quadrilateral nor a    *)
(* regular shape dualized about a center away from its own.                *)
C4_DualInvolutionAmended ==
    (/\ lib = "L"
     /\ op.name = "dual"
     /\ ~L_dual_is_generic(prev, op.c)
     /\ ~L_dual_is_generic(cur, op.c)
     /\ (Abs \/ ~L_dual_degrades(prev, op.c))) =>
        \A facet_count \in FacetCounts : L_dual_again(facet_count) = prev

(* A regular Simplex dualized twice about a center within EPS of its own,  *)
(* but not equal to it.                                                    *)
C4_Witness ==
    /\ lib = "L"
    /\ regime = "Con"
    /\ op.name = "dual"
    /\ prev.k = "Simplex"
    /\ prev.d = "Yes"
    /\ op.c = 1
    /\ cur = prev
    /\ L_dual_again(2) = prev


(* Trees of the Name type written down directly, constructors bypassed:    *)
(* an atom or helper shape under at most two one-child wrappers.           *)
RawWrappers == {"Petrial", "Pyramid", "Prism", "Tegum", "Antiprism"}

RawWrap(trees) == {Boxed(k, t) : k \in RawWrappers, t \in trees}

RawTrees == L_Seeds \cup RawWrap(L_Seeds) \cup RawWrap(RawWrap(L_Seeds))

InitRaw ==
    /\ lib = "L"
    /\ regime \in {"Abs", "Con"}
    /\ cur \in RawTrees
    /\ prev = cur
    /\ op = OpRec("raw", 0, <<>>)
    /\ lst = <<>>
    /\ atomic = FALSE
    /\ steps = 0

NextRaw == LPetrial

(* petrial applied to directly instantiated names.                         *)
SpecRaw == InitRaw /\ [][NextRaw]_vars

(* C5: in miratope-lang, petrial(petrial(n)) = n for every tree n of the   *)
(* Name type, constructor-built or not.                                    *)
C5_PetrialInvolution ==
    (lib = "L" /\ op.name = "petrial") => L_petrial(cur) = prev

(* A Petrial whose base is itself a Petrial.                               *)
DoublePetrial(x) == x.k = "Petrial" /\ x.kids[1].k = "Petrial"

(* C5 as amended: petrial(petrial(n)) = n for every tree n that is not a   *)
(* Petrial of a Petrial, hence for every constructor-built name.           *)
C5_PetrialInvolutionAmended ==
    (lib = "L" /\ op.name = "petrial" /\ ~DoublePetrial(prev)) =>
        L_petrial(cur) = prev

(* petrial has unwrapped a single Petrial and wraps it back.               *)
C5_Witness ==
    /\ lib = "L"
    /\ op.name = "petrial"
    /\ prev.k = "Petrial"
    /\ ~DoublePetrial(prev)
    /\ cur = prev.kids[1]
    /\ L_petrial(cur) = prev

(* C6: in src/lang, pyramid, prism and tegum of a name of known rank r     *)
(* have rank r + 1.                                                        *)
C6_RankAdditive ==
    (/\ lib = "S"
     /\ op.name \in {"pyramid", "prism", "tegum"}
     /\ S_rank(prev).t = "Some") =>
        /\ ~Crashed(cur)
        /\ S_rank(cur) = Some(S_rank(prev).v + 1)

RECURSIVE RankTotal(_, _)
(* The sum of rank(b) + offset over a list of names of known rank.         *)
RankTotal(names, offset) ==
    IF names = <<>> THEN 0
    ELSE S_rank(Head(names)).v + offset + RankTotal(Tail(names), offset)

HasNullitope(names) == \E i \in 1..Len(names) : names[i] = Nullitope

(* C7: in src/lang, the rank of a fold of names of known rank is the rank  *)
(* of the product: sum of (rank + 1), minus 1, for multipyramid; the sum   *)
(* of the ranks for multiprism and multitegum without a Nullitope operand. *)
C7_FoldRank ==
    (/\ lib = "S"
     /\ op.name \in {"Multipyramid", "Multiprism", "Multitegum"}
     /\ S_ranks_known(op.args)
     /\ (op.name # "Multipyramid" => ~HasNullitope(op.args))) =>
        /\ ~Crashed(cur)
        /\ S_rank(cur) = Some(IF op.name = "Multipyramid"
                              THEN RankTotal(op.args, 1) - 1
                              ELSE RankTotal(op.args, 0))

(* The atoms the low-rank cases are expected to return, written out per    *)
(* module and regime.                                                      *)
ExpectedRectangle ==
    CASE lib = "L" /\ Abs -> Node("Quadrilateral", "Abs", 0, 0, 0, <<>>)
      [] lib = "L" /\ ~Abs -> Node("Quadrilateral", "Rectangle", 0, 0, 0, <<>>)
      [] lib = "S" /\ Abs -> Atom("Square")
      [] OTHER -> Atom("Rectangle")

ExpectedOrthodiagonal ==
    CASE lib = "L" /\ Abs -> Node("Quadrilateral", "Abs", 0, 0, 0, <<>>)
      [] lib = "L" /\ ~Abs ->
           Node("Quadrilateral", "Orthodiagonal", 0, 0, 0, <<>>)
      [] lib = "S" /\ Abs -> Atom("Square")
      [] OTHER -> Atom("Orthodiagonal")

ExpectedTriangle ==
    CASE Abs -> Node("Triangle", "Abs", 0, 0, 0, <<>>)
      [] lib = "L" -> Node("Triangle", "No", 0, 0, 0, <<>>)
      [] OTHER -> Node("Triangle", "false", 0, 0, 0, <<>>)

(* C8: in both modules pyramid(Point) = Dyad, prism(Dyad) is the regime's  *)
(* rectangle/square atom, tegum(Dyad) is the regime's orthodiagonal/square *)
(* atom, and multipyramid of three Points is the irregular Triangle.       *)
C8_LowRank ==
    /\ (op.name = "pyramid" /\ prev = Point) => cur = Dyad
    /\ (op.name = "prism" /\ prev = Dyad) => cur = ExpectedRectangle
    /\ (op.name = "tegum" /\ prev = Dyad) => cur = ExpectedOrthodiagonal
    /\ (op.name = "Multipyramid" /\ op.args = <<Point, Point, Point>>) =>
           cur = ExpectedTriangle

(* src/lang has folded three Points into the irregular Triangle.           *)
C8_Witness ==
    /\ lib = "S"
    /\ op.name = "Multipyramid"
    /\ op.args = <<Point, Point, Point>>
    /\ cur = ExpectedTriangle

(* C9: in miratope-lang, in both regimes, the third pyramid in a row from  *)
(* Point yields a flat Simplex of tetrahedron rank, not a Pyramid.  The    *)
(* result of pyramid depends on its argument alone, so the third call is   *)
(* any pyramid call on the value pyramid(pyramid(Point)).                  *)
C9_PyramidThrice ==
    (/\ lib = "L"
     /\ atomic
     /\ op.name = "pyramid"
     /\ prev = L_pyramid(Abs, L_pyramid(Abs, Point))) =>
        cur.k = "Simplex" /\ cur.n = 4

(* C10: in src/lang, rank() of a name returned by a constructor yields     *)
(* Some or None and never panics.                                          *)
C10_RankTotal == (lib = "S" /\ ~Crashed(cur)) => S_rank(cur).t # "Panic"


(* C11: in src/lang, the rank of a multi-operand node with children of     *)
(* known rank is sum of (rank + 1), minus 1, for Multipyramid and          *)
(* Multicomb, and the sum of the ranks for Multiprism and Multitegum.      *)
C11_RankTable ==
    (lib = "S" /\ cur.k \in MultiKinds /\ S_ranks_known(cur.kids)) =>
        S_rank(cur) = Some(IF cur.k \in {"Multipyramid", "Multicomb"}
                           THEN RankTotal(cur.kids, 1) - 1
                           ELSE RankTotal(cur.kids, 0))

(* C11 as amended: as above for Multipyramid, Multiprism and Multitegum;   *)
(* for Multicomb the rank is sum of (rank - 1), plus 1.                    *)
C11_RankTableAmended ==
    (lib = "S" /\ cur.k \in MultiKinds /\ S_ranks_known(cur.kids)) =>
        S_rank(cur) = Some(CASE cur.k = "Multipyramid" ->
                                  RankTotal(cur.kids, 1) - 1
                             [] cur.k = "Multicomb" ->
                                  RankTotal(cur.kids, -1) + 1
                             [] OTHER -> RankTotal(cur.kids, 0))

(* multicomb has returned a Multicomb of at least two names of known rank. *)
C11_Witness ==
    /\ lib = "S"
    /\ op.name = "Multicomb"
    /\ cur.k = "Multicomb"
    /\ Len(cur.kids) >= 2
    /\ S_ranks_known(cur.kids)
    /\ S_rank(cur) = Some(RankTotal(cur.kids, -1) + 1)

RECURSIVE HasDual(_)
(* Whether a Dual node occurs in a name.                                   *)
HasDual(x) ==
    \/ x.k = "Dual"
    \/ \E i \in 1..Len(x.kids) : HasDual(x.kids[i])

RECURSIVE FacetRule(_)
RECURSIVE FacetProduct(_)
RECURSIVE FacetSum(_)
(* The facet count of a name without a Dual, by the rules of each kind.    *)
FacetProduct(names) ==
    IF names = <<>> THEN 1
    ELSE FacetRule(Head(names)) * FacetProduct(Tail(names))

FacetSum(names) ==
    IF names = <<>> THEN 0
    ELSE FacetRule(Head(names)) + FacetSum(Tail(names))

FacetRule(x) ==
    CASE x.k = "Nullitope" -> 0
      [] x.k = "Point" -> 1
      [] x.k = "Dyad" -> 2
      [] x.k = "Triangle" -> 3
      [] x.k \in {"Square", "Rectangle", "Orthodiagonal"} -> 4
      [] x.k \in {"Polygon", "Generic"} -> x.n
      [] x.k = "Simplex" -> x.n + 1
      [] x.k = "Hyperblock" -> 2 * x.n
      [] x.k = "Orthoplex" -> 2 ^ x.n
      [] x.k \in {"Multipyramid", "Multitegum"} -> FacetProduct(x.kids)
      [] x.k \in {"Multiprism", "Multicomb", "Compound"} -> FacetSum(x.kids)
      [] x.k = "Component" -> x.n * FacetRule(x.kids[1])
      [] x.k = "Pyramid" -> FacetRule(x.kids[1]) + 1
      [] x.k = "Prism" -> 2 * (FacetRule(x.kids[1]) + 1)
      [] x.k = "Tegum" -> 2 * FacetRule(x.kids[1])

(* C12: in src/lang, facet_count is None for a name in which a Dual        *)
(* occurs, and otherwise follows the rule of each kind: product for        *)
(* Multipyramid and Multitegum, sum for Multiprism and Multicomb, rank + 1 *)
(* for Simplex, 2 rank for Hyperblock, 2^rank for Orthoplex, fc + 1 for    *)
(* Pyramid, 2 (fc + 1) for Prism, 2 fc for Tegum, weighted sum for         *)
(* Compound.                                                               *)
C12_FacetCount ==
    (lib = "S" /\ ~Crashed(cur)) =>
        S_facet_count(cur) = (IF HasDual(cur) THEN None
                              ELSE Some(FacetRule(cur)))

(* A Multitegum of at least two names, none with a Dual, has been built.   *)
C12_Witness ==
    /\ lib = "S"
    /\ cur.k = "Multitegum"
    /\ Len(cur.kids) >= 2
    /\ ~HasDual(cur)
    /\ S_facet_count(cur) = Some(FacetProduct(cur.kids))
    /\ FacetProduct(cur.kids) > FacetSum(cur.kids)


(* C13: in src/lang, every name built from the atoms through the public    *)
(* constructors, the helper constructors called within their documented    *)
(* argument ranges, satisfies is_valid.                                    *)
C13_ValidityPreserved == (lib = "S" /\ ~Crashed(cur)) => S_is_valid(cur)


RECURSIVE MultiplicityOf(_, _)
(* The sum of the multiplicities of the components with a given name.      *)
MultiplicityOf(components, name) ==
    IF components = <<>> THEN 0
    ELSE (IF Head(components).kids[1] = name THEN Head(components).n ELSE 0)
         + MultiplicityOf(Tail(components), name)

ValidComponents(components) ==
    \A i \in 1..Len(components) : S_is_valid(components[i].kids[1])

NoCompoundAmong(components) ==
    \A i \in 1..Len(components) : components[i].kids[1].k # "Compound"

(* C14: in src/lang, compound of valid names returns no Compound inside a  *)
(* Compound and no two components of equal name, and every component       *)
(* carries the summed multiplicity of the equal inputs.  Stated of the     *)
(* calls that return.                                                      *)
C14_CompoundMerged ==
    (/\ lib = "S"
     /\ op.name = "compound"
     /\ ValidComponents(op.args)
     /\ ~Crashed(cur)
     /\ cur.k = "Compound") =>
            /\ NoCompoundAmong(cur.kids)
            /\ \A i, j \in 1..Len(cur.kids) :
                   i # j => cur.kids[i].kids[1] # cur.kids[j].kids[1]
            /\ NoCompoundAmong(op.args) =>
                   \A i \in 1..Len(cur.kids) :
                       cur.kids[i].n =
                           MultiplicityOf(op.args, cur.kids[i].kids[1])


(* ========================= the loading boundary ======================== *)

(* The text after the first character of a line: nothing, text that        *)
(* ron::from_str rejects, or the serialized form of a Name tree.           *)
NoText == [t |-> "Empty", v |-> Nullitope]
Malformed == [t |-> "Malformed", v |-> Nullitope]
Ron(tree) == [t |-> "Ron", v |-> tree]

(* The first line of a file: its first character ("" for an empty line)    *)
(* and the text after it.                                                  *)
Line(first, rest) == [k |-> "Line", first |-> first, rest |-> rest]

(* ron::from_str on the derived Deserialize of Name: a serialized tree is  *)
(* rebuilt field by field, with no check of the variants' invariants.      *)
ron_from_str(text) == IF text.t = "Ron" THEN Some(text.v) ELSE None

(* Name::from_src *)
L_from_src(first_line) ==
    IF first_line.first = "#"
    THEN IF first_line.rest.t = "Empty" THEN None
         ELSE ron_from_str(first_line.rest)
    ELSE None

(* Trees that break an invariant of their variant.                         *)
InvalidTrees ==
    {RegNode("Polygon", L_default_regular(Abs), 3),
     RegNode("Simplex", L_default_regular(Abs), 2),
     RegNode("Hyperblock", L_default_regular(Abs), 4),
     Multi("Multiprism", <<Point>>),
     L_Generic(1, 1)}

StoredTrees == L_Seeds \cup RawWrap(L_Seeds) \cup InvalidTrees

Lines ==
    {Line(first, rest) :
        first \in {"", "#", "o"},
        rest \in {NoText, Malformed} \cup {Ron(t) : t \in StoredTrees}}

(* The final component of a path, as its characters; the empty sequence    *)
(* for a path without one (the root, the empty path).                      *)
PathChars == {"a", "."}

FinalComponents ==
    {<<>>}
    \cup {<<x>> : x \in {"a"}}
    \cup {<<x, y>> : x \in PathChars, y \in PathChars}
    \cup {<<x, y, z>> : x \in PathChars, y \in PathChars, z \in PathChars}

(* A path handed to new_file: its final component, whether that component  *)
(* is valid UTF-8, and the name Concrete::name_from_off reads from the     *)
(* file (None when the file cannot be read or holds no stored name).       *)
Path(last, utf8, stored) ==
    [k |-> "Path", last |-> last, utf8 |-> utf8, stored |-> stored]

NoStoredName == [t |-> "None", v |-> Nullitope]

StoredNames ==
    {NoStoredName} \cup {Some(t) : t \in {Point, Dyad, S_Generic(6, 3)}}

(* Whether a final component names no file: `..`, or no component.         *)
NoFileName(last) == last = <<>> \/ last = <<".", ".">>

(* Only a path that names a file can hold a stored name or bytes that are  *)
(* not UTF-8.                                                              *)
Paths ==
    {Path(last, TRUE, NoStoredName) : last \in FinalComponents}
    \cup {Path(last, utf8, stored) :
            last \in {l \in FinalComponents : ~NoFileName(l)},
            utf8 \in BOOLEAN,
            stored \in StoredNames}

(* Path::file_name: None for a path that ends in `..` or has no component. *)
file_name(path) == IF NoFileName(path.last) THEN None ELSE Some(path.last)

RECURSIVE LastDot(_, _)
(* The index of the last '.' among the first i characters, 0 if none.      *)
LastDot(chars, i) ==
    IF i = 0 THEN 0
    ELSE IF chars[i] = "." THEN i ELSE LastDot(chars, i - 1)

(* Path::file_stem: the file name up to its last '.', or all of it when    *)
(* there is no '.' or the only one leads the name.                         *)
file_stem(path) ==
    LET name == file_name(path)
        dot == LastDot(path.last, Len(path.last))
    IN  IF name.t = "None" THEN None
        ELSE IF dot <= 1 THEN name
        ELSE Some(SubSeq(path.last, 1, dot - 1))

(* OsStr::to_str *)
to_str(path, os_str) ==
    IF os_str.t = "None" THEN None
    ELSE IF path.utf8 THEN os_str ELSE None

(* path_to_str: both unwraps panic on None.                                *)
path_to_str(path) ==
    LET name == file_name(path)
    IN  IF name.t = "None" THEN OptPanic
        ELSE IF to_str(path, name).t = "None" THEN OptPanic
        ELSE name

(* library::Name::Name / library::Name::Literal *)
LibName(name) == [t |-> "Name", v |-> name]
Literal(string) == [t |-> "Literal", v |-> string]

(* Library::File *)
File(name, entry) == [k |-> "File", file_name |-> name, name |-> entry]

(* Library::new_file *)
new_file(path) ==
    LET stem == to_str(path, file_stem(path))
        name == IF path.stored.t = "Some" THEN LibName(path.stored.v)
                ELSE Literal(IF stem.t = "None" THEN <<>> ELSE stem.v)
        str == path_to_str(path)
    IN  IF str.t = "Panic" THEN Panic ELSE File(str.v, name)

InitLoad ==
    /\ lib \in {"L", "S"}
    /\ regime = "Con"
    /\ cur \in (IF lib = "L" THEN Lines ELSE Paths)
    /\ prev = cur
    /\ op = OpRec("input", 0, <<>>)
    /\ lst = <<>>
    /\ atomic = FALSE
    /\ steps = 0

(* A call at the loading boundary: the input is consumed once.             *)
Load(l, name, result) ==
    /\ lib = l
    /\ op.name = "input"
    /\ cur' = result
    /\ prev' = cur
    /\ op' = OpRec(name, 0, <<>>)
    /\ steps' = steps + 1
    /\ UNCHANGED <<lib, regime, lst, atomic>>

LFromSrc == Load("L", "from_src", L_from_src(cur))

NewFile == Load("S", "new_file", new_file(cur))

NextLoad == LFromSrc \/ NewFile

(* Names read back from files, and library entries made for paths.         *)
SpecLoad == InitLoad /\ [][NextLoad]_vars

(* C15: in miratope-lang, from_src returns Some(name) only for a line      *)
(* that starts with '#' and whose remainder parses into a Name tree        *)
(* satisfying is_valid; otherwise it returns None; it never panics.        *)
C15_FromSrcValidated ==
    (lib = "L" /\ op.name = "from_src") =>
        LET parsed == prev.rest.t = "Ron"
            accepted == /\ prev.first = "#"
                        /\ parsed
                        /\ L_is_valid(prev.rest.v)
        IN  IF accepted THEN cur.t = "Some" /\ cur.v = prev.rest.v
            ELSE cur.t = "None"

(* C16: in ui/library.rs, new_file returns a File entry for every path and *)
(* never panics; the entry's name is the stored name when one can be read, *)
(* otherwise the Literal of the file stem, empty when there is none.       *)
C16_NewFileTotal ==
    (lib = "S" /\ op.name = "new_file") =>
        /\ cur.k = "File"
        /\ cur.name.t = (IF prev.stored.t = "Some" THEN "Name" ELSE "Literal")
        /\ cur.name.v = (CASE prev.stored.t = "Some" -> prev.stored.v
                           [] to_str(prev, file_stem(prev)).t = "None" -> <<>>
                           [] OTHER -> to_str(prev, file_stem(prev)).v)

(* ----------------------------------------------------------------- C17 *)
(* The constructors of miratope-lang that force-unwrap a wrapper: dual,    *)
(* through regular_dual! (center.apply) and eq_or (value.unwrap_ref).      *)
ForceUnwrapping(x) ==
    x.k \in {"Triangle", "Polygon", "Simplex", "Hyperblock", "Orthoplex",
             "Dual", "Antitegum"}

(* C17: in the abstract regime of miratope-lang no constructor call, on    *)
(* any name and after any sequence of calls, reaches a force-unwrap of the *)
(* phantom wrapper: no call ends in a panic.                               *)
C17_NoForceUnwrap ==
    (lib = "L" /\ regime = "Abs") => ~Crashed(cur)

(* An abstract dual of a regular shape, a Dual or an Antitegum returned.   *)
C17_Witness ==
    /\ lib = "L"
    /\ regime = "Abs"
    /\ op.name = "dual"
    /\ ForceUnwrapping(prev)
    /\ prev.k \in {"Dual", "Antitegum", "Orthoplex"}
    /\ ~Crashed(cur)

(* ------------------------------------------------- the NameData wrappers *)
(* A comparison's operands: the wrapper `d` (AbsData in the abstract       *)
(* regime, else a ConData<Regular> or ConData<Quadrilateral>) and the      *)
(* value of its type, the two centers of an eq_or, the fallback boolean.   *)
Comparisons ==
    LET Regulars == {"No", "Yes"}
        Quadrilaterals == {"Square", "Rectangle", "Orthodiagonal"}
    IN  {x \in [d : {"Abs"} \cup Regulars \cup Quadrilaterals,
                value : Regulars \cup Quadrilaterals,
                c : Centers, oc : Centers, other : BOOLEAN,
                result : {FALSE}, panicked : {FALSE}] :
            IF Abs THEN x.d = "Abs"
            ELSE \/ {x.d, x.value} \subseteq Regulars
                 \/ {x.d, x.value} \subseteq Quadrilaterals}

InitCmp ==
    /\ lib = "L"
    /\ regime \in {"Abs", "Con"}
    /\ cur \in Comparisons
    /\ prev = cur
    /\ op = OpRec("input", 0, <<>>)
    /\ lst = <<>>
    /\ atomic = FALSE
    /\ steps = 0

(* One call of a comparison on the operands.                               *)
Compare(name, result, panicked) ==
    /\ op.name = "input"
    /\ cur' = [cur EXCEPT !.result = result, !.panicked = panicked]
    /\ prev' = cur
    /\ op' = OpRec(name, 0, <<>>)
    /\ steps' = steps + 1
    /\ UNCHANGED <<lib, regime, lst, atomic>>

IsOr == Compare("is_or", L_is_or(cur.d, cur.value, cur.other), FALSE)

IsOrLazy ==
    Compare("is_or_lazy", L_is_or_lazy(cur.d, cur.value, cur.other), FALSE)

EqOr ==
    Compare("eq_or", L_eq_or(Abs, cur.c, cur.oc, cur.other) /\ ~L_eq_or_panics(Abs),
            L_eq_or_panics(Abs))

NextCmp == IsOr \/ IsOrLazy \/ EqOr

SpecCmp == InitCmp /\ [][NextCmp]_vars

(* ----------------------------------------------------------------- C18 *)
Compared == op.name \in {"is_or", "is_or_lazy", "eq_or"}

C19_Terminates ==
    (/\ lib = "S"
     /\ op.name \in {"pyramid", "prism", "tegum"} \cup MultiKinds
     /\ S_is_valid(prev)
     /\ \A i \in DOMAIN op.args : S_is_valid(op.args[i]))
        => cur # StackOverflow

(* ----------------------------------------------------------------- C20 *)
(* The identity the claim gives each multi-operand constructor.            *)
ClaimedIdentity(kind) ==
    IF kind \in {"Multipyramid", "Multicomb"} THEN Nullitope ELSE Point

(* A base that no multi-operand constructor absorbs or flattens.           *)
Irreducible(x) == x.k \in {"Polygon", "Generic", "Dual", "Antiprism", "Petrial"}

(* C20: in both name modules a multi-operand constructor returns its       *)
(* identity on an empty collection (Nullitope for multipyramid and         *)
(* multicomb, Point for multiprism and multitegum), returns a single       *)
(* irreducible base without a wrapper, and returns a Multi* node only when *)
(* at least two bases remain.                                              *)
C20_MultiCollapse ==
    (op.name \in MultiKinds /\ ~Crashed(cur)) =>
        /\ op.args = <<>> => cur = ClaimedIdentity(op.name)
        /\ (Len(op.args) = 1 /\ Irreducible(op.args[1])) => cur = op.args[1]
        /\ cur.k = op.name => Len(cur.kids) >= 2

(* ----------------------------------------------------------------- C21 *)
(* The operand list of the last call without its Nullitopes.               *)
WithoutNullitope == SelectSeq(op.args, LAMBDA x : x # Nullitope)

(* The last multi-operand call, repeated on the given list.                *)
MultiAgain(bases) ==
    IF lib = "L" THEN L_multi(op.name, Abs, bases)
    ELSE S_multi(op.name, Abs, bases, MaxStack)

(* C21: in both name modules multiprism, multitegum and multicomb return   *)
(* Nullitope whenever one of the supplied names is Nullitope, and          *)
(* multipyramid returns what it returns on the list without the Nullitope. *)
C21_NullitopeFolding ==
    (/\ op.name \in MultiKinds
     /\ \E i \in DOMAIN op.args : op.args[i] = Nullitope
     /\ ~Crashed(cur))
        => IF op.name = "Multipyramid"
           THEN cur = MultiAgain(WithoutNullitope)
           ELSE cur = Nullitope

(* ----------------------------------------------------------------- C22 *)
(* x sorts no higher than y: by rank, an unknown rank below every known    *)
(* one, then by facet count, an unknown count no higher than a known one.  *)
SortsNoHigher(x, y) ==
    LET rx == S_rank(x)
        ry == S_rank(y)
        fx == S_facet_count(x)
        fy == S_facet_count(y)
        RankBelow == \/ rx.t = "None" /\ ry.t = "Some"
                     \/ rx.t = "Some" /\ ry.t = "Some" /\ rx.v < ry.v
        RankSame == \/ rx.t = "None" /\ ry.t = "None"
                    \/ rx.t = "Some" /\ ry.t = "Some" /\ rx.v = ry.v
        CountNoHigher == \/ fx.t = "None"
                         \/ fx.t = "Some" /\ fy.t = "Some" /\ fx.v <= fy.v
                         \/ fx.t = "Some" /\ fy.t = "None" /\ fx.v = 0
    IN  RankBelow \/ (RankSame /\ CountNoHigher)

RECURSIVE MultiWellFormed(_)
MultiWellFormed(x) ==
    /\ x.k \in MultiKinds =>
          /\ Len(x.kids) >= 2
          /\ \A i \in DOMAIN x.kids : x.kids[i].k # x.k
    /\ \A i \in DOMAIN x.kids : MultiWellFormed(x.kids[i])

RECURSIVE HasMulti(_)
HasMulti(x) ==
    x.k \in MultiKinds \/ \E i \in DOMAIN x.kids : HasMulti(x.kids[i])

(* C23: in miratope-lang every Multi* node occurring anywhere in a name    *)
(* built through the constructors, the abstract dual included, has at      *)
(* least two children, none of which has the variant of the node itself.   *)
C23_MultiWellFormed ==
    lib = "L" => MultiWellFormed(cur)

(* A Multi* node that a constructor was handed and rebuilt: a multi-       *)
(* operand call on an operand holding a Multi* node, or an abstract dual   *)
(* distributed over one.                                                   *)
C23_Witness ==
    /\ lib = "L"
    /\ HasMulti(cur)
    /\ \/ op.name \in MultiKinds /\ \E i \in DOMAIN op.args : op.args[i].k = op.name
       \/ op.name = "dual" /\ regime = "Abs" /\ prev.k \in MultiKinds

(* ----------------------------------------------------------------- C24 *)
(* The atoms a Multi* node of the given kind absorbs.                      *)
Absorbable(kind, x) ==
    CASE kind = "Multipyramid" ->
           x.k \in {"Point", "Dyad", "Triangle", "Simplex"}
      [] kind = "Multiprism" ->
           \/ x.k \in {"Dyad", "Square", "Rectangle", "Cuboid", "Hyperblock"}
           \/ x.k = "Quadrilateral" /\ x.d \in {"Abs", "Square", "Rectangle"}
      [] kind = "Multitegum" ->
           \/ x.k \in {"Dyad", "Square", "Orthoplex"}
           \/ x.k = "Quadrilateral" /\ x.d \in {"Abs", "Square"}
      [] OTHER -> FALSE

InputsValid ==
    \A i \in DOMAIN op.args :
        IF lib = "L" THEN L_is_valid(op.args[i]) ELSE S_is_valid(op.args[i])

(* C24: in both name modules every Multi* node a multi-operand constructor *)
(* returns on valid names holds at most one absorbable atom of its kind.   *)
C24_OneAbsorbedAtom ==
    (/\ op.name \in MultiKinds
     /\ cur.k = op.name
     /\ InputsValid)
        => Cardinality({i \in DOMAIN cur.kids : Absorbable(cur.k, cur.kids[i])}) <= 1

(* ----------------------------------------------------------------- C25 *)
(* Some Pyramid, Prism or Tegum node of the tree wraps a node of its own   *)
(* variant.                                                                *)
RECURSIVE NestedWrapper(_)
NestedWrapper(x) ==
    \/ x.k \in {"Pyramid", "Prism", "Tegum"} /\ x.kids[1].k = x.k
    \/ \E i \in DOMAIN x.kids : NestedWrapper(x.kids[i])

(* C25: in miratope-lang no name a constructor returns on constructor-     *)
(* built inputs holds a Pyramid of a Pyramid, a Prism of a Prism or a      *)
(* Tegum of a Tegum.                                                       *)
C25_NoNestedWrapper ==
    (lib = "L" /\ ~Crashed(cur)) => ~NestedWrapper(cur)

(* ----------------------------------------------------------------- C26 *)
(* C26: in src/lang/name.rs, in the concrete regime, dual of a Pyramid,    *)
(* Prism, Tegum or Multi* node m with center c returns Dual{m, c}: the     *)
(* node itself, unchanged, under the Dual.                                 *)
C26_ConcreteDualWraps ==
    (/\ lib = "S"
     /\ regime = "Con"
     /\ op.name = "dual"
     /\ prev.k \in {"Pyramid", "Prism", "Tegum"} \cup MultiKinds)
        => cur = Centered("Dual", prev, op.c)

(* ----------------------------------------------------------------- C27 *)
(* C27: in src/lang/name.rs dual with center c1 of Dual{base, c0} returns  *)
(* base when the centers are equal and else a Generic name of base's own   *)
(* rank and facet count; for every constructor-built base the call returns *)
(* a name and does not fail fatally.                                       *)
C27_DualOfDual ==
    (/\ lib = "S"
     /\ op.name = "dual"
     /\ prev.k = "Dual")
        => /\ ~Crashed(cur)
           /\ IF regime = "Abs" \/ op.c = prev.c
              THEN cur = prev.kids[1]
              ELSE /\ cur.k = "Generic"
                   /\ S_rank(prev.kids[1]).t = "Some"
                   /\ cur.m = S_rank(prev.kids[1]).v

(* ----------------------------------------------------------------- C28 *)
RegularAtoms == {"Triangle", "Polygon", "Simplex", "Hyperblock", "Orthoplex"}

(* The variant of the dual of a regular atom.                              *)
DualVariant(k) ==
    CASE k = "Hyperblock" -> "Orthoplex"
      [] k = "Orthoplex" -> "Hyperblock"
      [] OTHER -> k

(* C28: in miratope-lang, in the concrete regime, the dual of a Triangle,  *)
(* Polygon, Simplex, Hyperblock or Orthoplex has the dual variant and the  *)
(* same rank or n; recorded as regular with center c0 it keeps the regular *)
(* data exactly when the supplied center is within EPS of c0 and is marked *)
(* irregular otherwise; the dual of an irregular atom is irregular.        *)
C28_RegularDual ==
    (/\ lib = "L"
     /\ regime = "Con"
     /\ op.name = "dual"
     /\ prev.k \in RegularAtoms)
        => /\ cur.k = DualVariant(prev.k)
           /\ cur.n = prev.n
           /\ IF prev.d = "Yes" /\ Dist(op.c, prev.c) < EPS
              THEN cur.d = "Yes" /\ cur.c = prev.c
              ELSE cur.d = "No"

(* The dual of a regular Hyperblock about a center near, but not at, the   *)
(* recorded one: a regular Orthoplex.                                      *)
C28_Witness ==
    /\ lib = "L"
    /\ regime = "Con"
    /\ op.name = "dual"
    /\ prev.k = "Hyperblock"
    /\ prev.d = "Yes"
    /\ op.c # prev.c
    /\ cur.k = "Orthoplex"
    /\ cur.d = "Yes"

(* ----------------------------------------------------------------- C29 *)
(* C29: in miratope-lang, in the concrete regime, pyramid of a regular     *)
(* Triangle or Simplex returns Pyramid of that node unchanged; pyramid of  *)
(* an irregular Triangle or Simplex returns the irregular Simplex of the   *)
(* next rank.                                                              *)
C29_PyramidOfSimplex ==
    (/\ lib = "L"
     /\ regime = "Con"
     /\ op.name = "pyramid"
     /\ prev.k \in {"Triangle", "Simplex"})
        => IF prev.d = "Yes"
           THEN cur = Boxed("Pyramid", prev)
           ELSE /\ cur.k = "Simplex"
                /\ cur.d = "No"
                /\ cur.n = L_true_rank(prev) + 1
                /\ cur.kids = <<>>

(* Both cases on a Simplex: the regular one wrapped, the irregular one     *)
(* raised by a rank.                                                       *)
C29_Witness ==
    /\ lib = "L"
    /\ regime = "Con"
    /\ op.name = "pyramid"
    /\ prev.k = "Simplex"
    /\ \/ prev.d = "Yes" /\ cur.k = "Pyramid"
       \/ prev.d = "No" /\ cur.k = "Simplex" /\ cur.n = prev.n + 1

(* ==================== ui/library.rs: the show results ================== *)
(* ShowResult: None, Load(path) or Special(library).                       *)
ShowResults ==
    {[t |-> "None", v |-> "-"]}
    \cup {[t |-> "Load", v |-> path] : path \in {"a.off", "b.off", "c.off"}}
    \cup {[t |-> "Special", v |-> special] :
              special \in {"Polygon", "Simplex", "Hypercube"}}

(* impl BitOr: `self | rhs` is rhs when self is None, else self.           *)
bitor(self, rhs) == IF self.t = "None" THEN rhs ELSE self

(* impl BitOrAssign: the value of self after `self |= rhs`: rhs unless rhs *)
(* is None.                                                                *)
bitor_assign(self, rhs) == IF rhs.t # "None" THEN rhs ELSE self

(* Two show results a and b, and the value of an expression over them.     *)
InitShow ==
    /\ lib = "S"
    /\ regime = "Con"
    /\ cur \in [a : ShowResults, b : ShowResults, result : ShowResults]
    /\ cur.result = cur.a
    /\ prev = cur
    /\ op = OpRec("input", 0, <<>>)
    /\ lst = <<>>
    /\ atomic = FALSE
    /\ steps = 0

(* let result = a | b *)
BitOr ==
    /\ op.name = "input"
    /\ cur' = [cur EXCEPT !.result = bitor(cur.a, cur.b)]
    /\ prev' = cur
    /\ op' = OpRec("bitor", 0, <<>>)
    /\ steps' = steps + 1
    /\ UNCHANGED <<lib, regime, lst, atomic>>

(* a |= b *)
BitOrAssign ==
    /\ op.name = "input"
    /\ cur' = [cur EXCEPT !.a = bitor_assign(cur.a, cur.b)]
    /\ prev' = cur
    /\ op' = OpRec("bitor_assign", 0, <<>>)
    /\ steps' = steps + 1
    /\ UNCHANGED <<lib, regime, lst, atomic>>

NextShow == BitOr \/ BitOrAssign

SpecShow == InitShow /\ [][NextShow]_vars

(* ----------------------------------------------------------------- C30 *)
(* C30: the two ways of combining show results agree: for all a and b the  *)
(* value of a after `a |= b` is the variant, with the payload, of `a | b`. *)
C30_BitOrAgree ==
    op.name = "bitor_assign" => cur.a = bitor(prev.a, prev.b)
====
